---- MODULE Spec2Model ----
(***************************************************************************)
(* Model of src/main.py: the CSV ingestion pipeline load_and_process_data  *)
(* (cached by @st.cache_data) and the script body main(), which slices the *)
(* series by an analyst-chosen date range and renders three comparison     *)
(* tables and three co-movement probabilities.                             *)
(*                                                                         *)
(* Representation.                                                         *)
(*   - A CSV file is a record [exists, ncols, rows]; rows are the lines    *)
(*     after the header line that pd.read_csv consumes.                    *)
(*   - A date cell is a string; a numeric cell is a sequence of one-char   *)
(*     strings (the text of the cell), <<>> being an empty cell.           *)
(*   - A float is a record [k, v] with k in "num", "nan", "inf", "-inf".   *)
(*   - A parsed date is a day ordinal (1 = 2024-01-02); NaT is 0.          *)
(*   - index_change_pct and the probabilities are integers counting        *)
(*     hundredths of a percent (2 decimals).                               *)
(***************************************************************************)
EXTENDS Integers, Sequences, FiniteSets

VARIABLES file, cache, run, source, df, status, start_date, end_date,
          filtered_df, tables, probability

vars == <<file, cache, run, source, df, status, start_date, end_date,
          filtered_df, tables, probability>>

(***************************************************************************)
(* Bounds                                                                  *)
(***************************************************************************)
MaxRows == 3

MaxCols == 6

(***************************************************************************)
(* Floats                                                                  *)
(***************************************************************************)
Num(n) == [k |-> "num", v |-> n]

NaN == [k |-> "nan", v |-> 0]

PosInf == [k |-> "inf", v |-> 0]

NegInf == [k |-> "-inf", v |-> 0]

NaT == 0

isna(x) == x.k = "nan"

\* x > 0 as pandas evaluates it: False for NaN, True for +inf
gt0(x) == (x.k = "num" /\ x.v > 0) \/ x.k = "inf"

\* x < 0 as pandas evaluates it: False for NaN, True for -inf
lt0(x) == (x.k = "num" /\ x.v < 0) \/ x.k = "-inf"

Abs(n) == IF n < 0 THEN -n ELSE n

\* n / d rounded to the nearest integer, ties to even (d # 0)
RoundHalfEven(n, d) ==
    LET s  == IF (n < 0) = (d < 0) THEN 1 ELSE -1
        an == Abs(n)
        ad == Abs(d)
        q  == an \div ad
        r  == an % ad
        m  == IF 2 * r > ad THEN q + 1
              ELSE IF 2 * r < ad THEN q
              ELSE IF q % 2 = 0 THEN q ELSE q + 1
    IN  s * m

(***************************************************************************)
(* Cell conversions                                                        *)
(***************************************************************************)
Digits == {"0", "1", "2", "3", "4", "5", "6", "7", "8", "9"}

DigitVal(c) ==
    CASE c = "0" -> 0 [] c = "1" -> 1 [] c = "2" -> 2 [] c = "3" -> 3
      [] c = "4" -> 4 [] c = "5" -> 5 [] c = "6" -> 6 [] c = "7" -> 7
      [] c = "8" -> 8 [] c = "9" -> 9

RECURSIVE str_replace(_, _)
\* .str.replace(ch, ''): the text without any occurrence of ch
str_replace(s, ch) ==
    IF s = <<>> THEN <<>>
    ELSE IF Head(s) = ch THEN str_replace(Tail(s), ch)
         ELSE <<Head(s)>> \o str_replace(Tail(s), ch)

RECURSIVE DigitsValue(_, _)
DigitsValue(s, acc) ==
    IF s = <<>> THEN acc
    ELSE DigitsValue(Tail(s), 10 * acc + DigitVal(Head(s)))

\* pd.to_numeric(errors='coerce') on one text: optional sign and digits
\* give the number, anything else (the empty cell included) gives NaN
to_numeric(s) ==
    LET signed == s # <<>> /\ Head(s) \in {"-", "+"}
        body   == IF signed THEN Tail(s) ELSE s
    IN  IF body # <<>> /\ \A i \in 1..Len(body) : body[i] \in Digits
        THEN Num((IF signed /\ Head(s) = "-" THEN -1 ELSE 1) * DigitsValue(body, 0))
        ELSE NaN

\* a conversion that keeps an unparseable cell as zero
ConvertNumeric_zero(cell) ==
    LET x == to_numeric(str_replace(str_replace(cell, ","), "\""))
    IN  IF isna(x) THEN Num(0) ELSE x

\* lines 333-337: strip commas and quote characters, then parse
ConvertNumeric(cell) == to_numeric(str_replace(str_replace(cell, ","), "\""))

\* pd.to_datetime(errors='coerce') on one cell
to_datetime(s) ==
    CASE s = "2024-01-02" -> 1
      [] s = "2024-01-03" -> 2
      [] s = "2024-01-04" -> 3
      [] s = "2024-01-05" -> 4
      [] OTHER -> NaT

(***************************************************************************)
(* Input files                                                             *)
(***************************************************************************)
Row(d, i, n, f, s) ==
    [date |-> d, index_level |-> i, night_futures_foreign |-> n,
     regular_futures_foreign |-> f, regular_spot_foreign |-> s]

\* The lines a file is made of: three plain trading days, a zero index level
\* on an already used date, a non-numeric index level, a row written with
\* thousands separators, quotes and an explicit sign, a unit/label row and a
\* blank row.
RowPool ==
    { Row("2024-01-02", <<"1","0","0">>, <<"5","0">>, <<"3","0">>, <<"2","0">>),
      Row("2024-01-03", <<"1","0","1">>, <<"-","4","0">>, <<"-","1","0">>, <<"5">>),
      Row("2024-01-04", <<"9","9">>, <<"2","0">>, <<"1","5">>, <<"-","1","0">>),
      Row("2024-01-03", <<"0">>, <<"0">>, <<"1","5">>, <<"-","1","0">>),
      Row("2024-01-04", <<"a","b","c">>, <<"2","0">>, <<"1","5">>, <<"-","1","0">>),
      Row("2024-01-05", <<"1",",","0","1","0">>, <<"\"","-","7","\"">>, <<"+","3">>,
          <<"-","1",",","2","0","0">>),
      Row("UNIT", <<"p","t">>, <<>>, <<>>, <<>>),
      Row("", <<>>, <<>>, <<>>, <<>>) }

\* line 269: the number of names in expected_columns
expected_columns == 5

RowSeqs(n) == UNION {[1..m -> RowPool] : m \in 0..n}

\* exists: the file is on disk; ncols: the number of columns of its lines;
\* rows: the lines after the header line (the first five cells of each)
Files ==
    [exists : {TRUE}, ncols : (expected_columns - 1)..MaxCols, rows : RowSeqs(MaxRows)]
    \cup {[exists |-> FALSE, ncols |-> expected_columns, rows |-> <<>>]}

(***************************************************************************)
(* load_and_process_data: the pipeline                                     *)
(***************************************************************************)
encodings == <<"cp949", "euc-kr", "utf-8", "latin-1">>

\* line 233 for one encoding: FALSE stands for the FileNotFoundError that
\* the loop swallows (the rows of the model decode under every encoding)
read_csv(f, encoding) == f.exists

\* lines 229-245: df is None after the loop when no encoding succeeded
DecodeFails(f) == \A e \in 1..Len(encodings) : ~read_csv(f, encodings[e])

\* line 251: the first cell is one of the three unit markers or contains the
\* unit word; "UNIT" stands for all of them, they take the same branch
IsUnitMarker(cell) == cell \in {"UNIT"}

\* line 261: the first cell is empty or missing
IsBlank(cell) == cell = ""

\* lines 251-255; applied to a frame with at least one row
DropUnitRow(rows) == IF IsUnitMarker(rows[1].date) THEN Tail(rows) ELSE rows

\* lines 261-263; applied to a frame with at least one row
DropBlankRow(rows) == IF IsBlank(rows[1].date) THEN Tail(rows) ELSE rows

\* lines 271-277: "schema" is the raise of line 277; "rename" is the
\* ValueError (Length mismatch) of line 273, where expected_columns[:n] has
\* five names for every n >= 5 and pandas rejects a list of names that is
\* shorter than the frame
AssignColumns(ncols) ==
    IF ncols >= expected_columns
    THEN IF ncols = expected_columns THEN "ok" ELSE "rename"
    ELSE "schema"

\* line 283 and line 299: dropna(subset=[date])
DropMissingDate(rows) == SelectSeq(rows, LAMBDA r : r.date # "")

ParseDates(rows) == [i \in 1..Len(rows) |-> [rows[i] EXCEPT !.date = to_datetime(@)]]

DropNaT(rows) == SelectSeq(rows, LAMBDA r : r.date # NaT)

\* lines 321-337
CoerceNumeric(rows) ==
    [i \in 1..Len(rows) |->
        [date |-> rows[i].date,
         index_level |-> ConvertNumeric(rows[i].index_level),
         night_futures_foreign |-> ConvertNumeric(rows[i].night_futures_foreign),
         regular_futures_foreign |-> ConvertNumeric(rows[i].regular_futures_foreign),
         regular_spot_foreign |-> ConvertNumeric(rows[i].regular_spot_foreign)]]

HasNaN(r) ==
    \/ isna(r.index_level)
    \/ isna(r.night_futures_foreign)
    \/ isna(r.regular_futures_foreign)
    \/ isna(r.regular_spot_foreign)

\* line 347
dropna(rows) == SelectSeq(rows, LAMBDA r : ~HasNaN(r))

\* a sort that leaves the rows in file order
sort_values_unsorted(rows) == {rows}

\* line 359: sort_values uses quicksort, which keeps no order among equal
\* dates; every ordering with non-decreasing dates is a possible outcome
sort_values(rows) ==
    LET n == Len(rows)
    IN  { [i \in 1..n |-> rows[p[i]]] :
            p \in { q \in [1..n -> 1..n] :
                      /\ \A i, j \in 1..n : i # j => q[i] # q[j]
                      /\ \A i, j \in 1..n : i < j => rows[q[i]].date <= rows[q[j]].date } }

\* a shift by zero positions
shift_none(col, i) == col[i]

\* lines 365-369: column.shift(-1); the last position gets NaN
shift(col, i) == IF i + 1 <= Len(col) THEN col[i + 1] ELSE NaN

\* line 375, in hundredths of a percent; a zero index level divides by zero
ChangePct(cur, nxt) ==
    IF isna(nxt) \/ isna(cur) THEN NaN
    ELSE IF cur.v = 0
         THEN IF nxt.v > 0 THEN PosInf ELSE IF nxt.v < 0 THEN NegInf ELSE NaN
         ELSE Num(RoundHalfEven(10000 * (nxt.v - cur.v), cur.v))

Column(rows, name) == [i \in 1..Len(rows) |-> rows[i][name]]

\* lines 365-375
AddNextDay(rows) ==
    [i \in 1..Len(rows) |->
        LET nxt == shift(Column(rows, "index_level"), i)
        IN  [date |-> rows[i].date,
             index_level |-> rows[i].index_level,
             night_futures_foreign |-> rows[i].night_futures_foreign,
             regular_futures_foreign |-> rows[i].regular_futures_foreign,
             regular_spot_foreign |-> rows[i].regular_spot_foreign,
             next_index_level |-> nxt,
             next_regular_futures_foreign |->
                 shift(Column(rows, "regular_futures_foreign"), i),
             next_regular_spot_foreign |->
                 shift(Column(rows, "regular_spot_foreign"), i),
             index_change_pct |-> ChangePct(rows[i].index_level, nxt)]]

\* a trim at the wrong end: df[1:]
DropLast_first(rows) == SubSeq(rows, 2, Len(rows))

\* line 381: df[:-1]
DropLast(rows) == SubSeq(rows, 1, Len(rows) - 1)

\* a handler that returns the empty frame instead of None
Failed_frame(step, f, frame) ==
    [failure |-> step, ncols |-> f.ncols, frame |-> frame, survivors |-> <<>>,
     pretrim |-> <<>>, none |-> FALSE, rows |-> <<>>]

\* What one execution of the body leaves behind.  failure names the step
\* that raised ("none" when the body reached line 385); frame is the frame
\* after header detection, survivors the rows after line 347, pretrim the
\* frame after line 375, none/rows the returned value (None or a frame).
Failed(step, f, frame) ==
    [failure |-> step, ncols |-> f.ncols, frame |-> frame, survivors |-> <<>>,
     pretrim |-> <<>>, none |-> TRUE, rows |-> <<>>]

\* lines 219-393: every possible execution of the body on file f
PipelineRuns(f) ==
    IF DecodeFails(f) THEN {Failed("decode", f, <<>>)}
    ELSE IF f.rows = <<>> THEN {Failed("header", f, <<>>)}
    ELSE LET a == DropUnitRow(f.rows) IN
    IF a = <<>> THEN {Failed("header", f, <<>>)}
    ELSE LET frame == DropBlankRow(a) IN
    IF AssignColumns(f.ncols) # "ok" THEN {Failed(AssignColumns(f.ncols), f, frame)}
    ELSE LET dated == DropNaT(ParseDates(DropMissingDate(frame))) IN
    IF Len(dated) = 0 THEN {Failed("date", f, frame)}
    ELSE LET survivors == dropna(CoerceNumeric(dated)) IN
    IF Len(survivors) = 0 THEN {Failed("nodata", f, frame)}
    ELSE { [failure |-> "none", ncols |-> f.ncols, frame |-> frame,
            survivors |-> survivors, pretrim |-> AddNextDay(sorted),
            none |-> FALSE, rows |-> DropLast(AddNextDay(sorted))] :
              sorted \in sort_values(survivors) }

(***************************************************************************)
(* main: the script body                                                   *)
(***************************************************************************)
Kinds == {"futures", "spot", "index"}

\* the column each section compares night_futures_foreign with
TargetField(kind) ==
    CASE kind = "futures" -> "next_regular_futures_foreign"
      [] kind = "spot" -> "next_regular_spot_foreign"
      [] kind = "index" -> "index_change_pct"

NoProbability == [shown |-> "none", value |-> 0]

Undefined == [shown |-> "undefined", value |-> 0]

Shown(p) == [shown |-> "number", value |-> p]

\* a comparison that is not strict: zero counts as positive
same_trend_positive_nonstrict(rows, target) ==
    Cardinality({i \in 1..Len(rows) :
        ~lt0(rows[i].night_futures_foreign) /\ ~lt0(rows[i][target])})

\* lines 789-791, 855-857, 923-925: (mask & mask).sum()
same_trend_positive(rows, target) ==
    Cardinality({i \in 1..Len(rows) :
        gt0(rows[i].night_futures_foreign) /\ gt0(rows[i][target])})

\* lines 797-799, 863-865, 931-933: (mask & mask).sum()
same_trend_negative(rows, target) ==
    Cardinality({i \in 1..Len(rows) :
        lt0(rows[i].night_futures_foreign) /\ lt0(rows[i][target])})

\* lines 785-825, 851-891, 919-959: what the section displays, the number
\* being formatted with two decimals
ProbabilitySection(rows, target) ==
    IF rows # <<>>
    THEN LET total_same_trend ==
                 same_trend_positive(rows, target) + same_trend_negative(rows, target)
             total_rows == Len(rows)
         IN  IF total_rows > 0
             THEN Shown(RoundHalfEven(10000 * total_same_trend, total_rows))
             ELSE Undefined
    ELSE Undefined

\* lines 425-455, 503-533, 581-637: with no rows table_data is [], the
\* DataFrame built from it has no columns and sort_values on the date
\* column raises KeyError
create_comparison_table(rows) == IF rows = <<>> THEN "KeyError" ELSE "table"

\* line 763
FilterByDate(rows, s, e) == SelectSeq(rows, LAMBDA r : r.date >= s /\ r.date <= e)

RECURSIVE SeqMin(_)
SeqMin(s) ==
    IF Len(s) = 1 THEN s[1]
    ELSE LET m == SeqMin(Tail(s)) IN IF s[1] < m THEN s[1] ELSE m

RECURSIVE SeqMax(_)
SeqMax(s) ==
    IF Len(s) = 1 THEN s[1]
    ELSE LET m == SeqMax(Tail(s)) IN IF s[1] > m THEN s[1] ELSE m

\* lines 733-757: the dates the two date_input widgets let the analyst pick
DateChoices(rows) ==
    IF rows = <<>> THEN {NaT}
    ELSE SeqMin(Column(rows, "date"))..SeqMax(Column(rows, "date"))

NothingShown == [k \in Kinds |-> NoProbability]

\* lines 767-959 on the slice: the sections run in order and an exception
\* ends the script; all three tables raise on the same slices, so the
\* script either stops at line 777 or reaches its end
Render(rows) ==
    IF create_comparison_table(rows) = "KeyError"
    THEN [status |-> "crash", tables |-> {}, probability |-> NothingShown]
    ELSE [status |-> "rendered", tables |-> Kinds,
          probability |-> [k \in Kinds |-> ProbabilitySection(rows, TargetField(k))]]

(***************************************************************************)
(* State machine                                                           *)
(***************************************************************************)
NotRun ==
    [failure |-> "notrun", ncols |-> 0, frame |-> <<>>, survivors |-> <<>>,
     pretrim |-> <<>>, none |-> TRUE, rows |-> <<>>]

Init ==
    /\ file \in Files
    /\ cache = [set |-> FALSE, none |-> TRUE, rows |-> <<>>]
    /\ run = NotRun
    /\ source = file
    /\ df = [none |-> TRUE, rows |-> <<>>]
    /\ status = "not_run"
    /\ start_date = NaT
    /\ end_date = NaT
    /\ filtered_df = <<>>
    /\ tables = {}
    /\ probability = NothingShown

\* lines 213-215: @st.cache_data on a function without parameters keeps one
\* entry; the body runs when the entry is missing and its return value,
\* None included, is stored
CachedLoad(r) ==
    IF cache.set
    THEN /\ r = run
         /\ UNCHANGED <<cache, run>>
    ELSE /\ r \in PipelineRuns(file)
         /\ run' = r
         /\ cache' = [set |-> TRUE, none |-> r.none, rows |-> r.rows]

\* lines 709-959: one execution of the script; s and e are the dates the
\* analyst has picked in the two date_input widgets
Main ==
    \E r \in (IF cache.set THEN {run} ELSE PipelineRuns(file)) :
        /\ CachedLoad(r)
        /\ source' = file
        /\ df' = [none |-> r.none, rows |-> r.rows]
        /\ UNCHANGED file
        /\ IF r.none
           THEN /\ status' = "load_error"
                /\ start_date' = NaT
                /\ end_date' = NaT
                /\ filtered_df' = <<>>
                /\ tables' = {}
                /\ probability' = NothingShown
           ELSE \E s, e \in DateChoices(r.rows) :
                /\ start_date' = s
                /\ end_date' = e
                /\ filtered_df' = FilterByDate(r.rows, s, e)
                /\ LET out == Render(FilterByDate(r.rows, s, e))
                   IN  /\ status' = out.status
                       /\ tables' = out.tables
                       /\ probability' = out.probability

\* the environment adds a line to the file on disk
AppendRow(r) ==
    /\ file.exists
    /\ Len(file.rows) < MaxRows
    /\ file' = [file EXCEPT !.rows = Append(@, r)]
    /\ UNCHANGED <<cache, run, source, df, status, start_date, end_date,
                   filtered_df, tables, probability>>

Next ==
    \/ Main
    \/ \E r \in RowPool : AppendRow(r)

Spec == Init /\ [][Next]_vars

(***************************************************************************)
(* Properties                                                              *)
(***************************************************************************)
Loaded == status # "not_run"

Returned == Loaded /\ ~df.none

BaseFields ==
    {"index_level", "night_futures_foreign", "regular_futures_foreign",
     "regular_spot_foreign"}

\* C1: every record of the sorted series that has a successor carries the
\* successor's index level, regular futures and regular spot values as its
\* next-day fields.
C1_ForwardShiftExact ==
    run.failure = "none" =>
        \A i \in 1..(Len(run.pretrim) - 1) :
            /\ run.pretrim[i].next_index_level = run.pretrim[i + 1].index_level
            /\ run.pretrim[i].next_regular_futures_foreign
                   = run.pretrim[i + 1].regular_futures_foreign
            /\ run.pretrim[i].next_regular_spot_foreign
                   = run.pretrim[i + 1].regular_spot_foreign

C1_Witness ==
    /\ status = "rendered"
    /\ Len(run.pretrim) >= 3
    /\ run.pretrim[1].regular_futures_foreign # run.pretrim[2].regular_futures_foreign

\* C2 as stated: every returned series is strictly ascending by date, so
\* no two of its records have the same date.
C2_StrictlyAscending ==
    Returned =>
        \A i, j \in 1..Len(df.rows) : i < j => df.rows[i].date < df.rows[j].date

DistinctDates(rows) ==
    \A i, j \in 1..Len(rows) : i # j => rows[i].date # rows[j].date

\* C2 amended: every returned series is ascending by date, and strictly
\* ascending without duplicate dates when the rows that survived the
\* filters have pairwise distinct dates.
C2_AscendingAndStrictIfDistinct ==
    Returned =>
        /\ \A i, j \in 1..Len(df.rows) : i < j => df.rows[i].date <= df.rows[j].date
        /\ DistinctDates(run.survivors) =>
               \A i, j \in 1..Len(df.rows) : i < j => df.rows[i].date < df.rows[j].date

C2_Witness ==
    /\ Returned
    /\ Len(df.rows) >= 2
    /\ DistinctDates(run.survivors)
    /\ \E i, j \in 1..Len(run.survivors) :
           i < j /\ run.survivors[i].date > run.survivors[j].date

Sgn(x) ==
    IF x.k = "inf" THEN 1
    ELSE IF x.k = "-inf" THEN -1
    ELSE IF x.k = "nan" THEN 0
    ELSE IF x.v > 0 THEN 1 ELSE IF x.v < 0 THEN -1 ELSE 0

Agreeing(rows, kind) ==
    {i \in 1..Len(rows) :
        Sgn(rows[i].night_futures_foreign) * Sgn(rows[i][TargetField(kind)]) = 1}

\* C3: on a non-empty slice each section shows, to two decimals, 100 times
\* the number of records whose night futures value and target value are both
\* strictly positive or both strictly negative, over the number of records
\* of the slice; a record with a zero on either side is in the total only.
C3_ProbabilityIsAgreementShare ==
    (Loaded /\ ~df.none /\ filtered_df # <<>>) =>
        \A kind \in Kinds :
            /\ probability[kind].shown = "number"
            /\ 2 * Abs(probability[kind].value * Len(filtered_df)
                         - 10000 * Cardinality(Agreeing(filtered_df, kind)))
                   <= Len(filtered_df)

C3_Witness ==
    /\ status = "rendered"
    /\ \E i \in 1..Len(filtered_df) : filtered_df[i].night_futures_foreign = Num(0)
    /\ probability["futures"].value = 5000

\* the cells of the input lines that are not the text of a number
NotANumber == {<<"a","b","c">>, <<"p","t">>, <<>>}

DateTexts == {"2024-01-02", "2024-01-03", "2024-01-04", "2024-01-05"}

Complete(line) ==
    /\ line.date \in DateTexts
    /\ \A c \in BaseFields : line[c] \notin NotANumber

\* C4: every record of a returned series has its four numeric base fields
\* present, and the rows that survive are exactly the lines with a date and
\* four numeric cells: a line with an unparseable cell is dropped, not kept
\* with a substituted value.
C4_CompleteRowsOnly ==
    /\ Returned => \A i \in 1..Len(df.rows) : \A c \in BaseFields : df.rows[i][c].k = "num"
    /\ run.failure = "none" =>
           Len(run.survivors)
               = Cardinality({i \in 1..Len(run.frame) : Complete(run.frame[i])})

C4_Witness ==
    /\ Returned
    /\ df.rows # <<>>
    /\ \E i \in 1..Len(run.frame) :
           /\ run.frame[i].date \in DateTexts
           /\ run.frame[i].index_level = <<"a","b","c">>

\* C5: when the date range selected on a non-empty series holds no record,
\* each of the three sections reports the probability as undefined.
C5_EmptySliceUndefined ==
    (Returned /\ df.rows # <<>> /\ filtered_df = <<>>) =>
        \A kind \in Kinds : probability[kind].shown = "undefined"

\* C6: when a step of the ingestion raised, load_and_process_data returned
\* None and the script stopped at its diagnostic with no table and no
\* probability.
C6_FailureIsTerminal ==
    run.failure \notin {"none", "notrun"} =>
        /\ cache.set /\ cache.none
        /\ df.none
        /\ status = "load_error"
        /\ tables = {}
        /\ \A kind \in Kinds : probability[kind].shown = "none"

C6_Witness ==
    /\ run.failure = "nodata"
    /\ status = "load_error"
    /\ \E i \in 1..Len(run.frame) : run.frame[i].date \in DateTexts

\* C7: once the frame is read and its header rows are handled, column
\* assignment fails exactly when the file has fewer than five columns.
C7_AssignFailsIffFewerThanFive ==
    run.failure \notin {"notrun", "decode", "header"} =>
        (run.failure \in {"schema", "rename"} <=> run.ncols < expected_columns)

\* C8: no record of a returned series carries an infinite or NaN
\* index_change_pct.
C8_ChangePctFinite ==
    Returned => \A i \in 1..Len(df.rows) : df.rows[i].index_change_pct.k = "num"

\* C9: the value a request gets is a series built from the content the file
\* had at the time of the request.
C9_ResultOfCurrentContent ==
    Loaded => \E r \in PipelineRuns(source) : r.none = df.none /\ r.rows = df.rows

\* C10: the returned series is the sorted series without its last record:
\* one record fewer than the rows that survived the filters, the others
\* unchanged and in place, the dropped one having the latest date.
C10_OnlyLastDropped ==
    run.failure = "none" =>
        /\ Len(run.rows) = Len(run.survivors) - 1
        /\ Len(run.pretrim) = Len(run.survivors)
        /\ \A i \in 1..Len(run.rows) :
               /\ run.rows[i] = run.pretrim[i]
               /\ run.rows[i].date <= run.pretrim[Len(run.pretrim)].date
        /\ Returned => df.rows = run.rows

C10_Witness ==
    /\ status = "rendered"
    /\ Len(run.survivors) >= 3
    /\ Len(df.rows) = 2
    /\ df.rows[1].date # df.rows[2].date

====
